---- MODULE Spec2Model ----
(***************************************************************************)
(* Model of merge_csv.py: the timestamp parser (parse_time_column), the    *)
(* variable extractor (extract_variable_from_csv), the reconciliation and  *)
(* merge pipeline (process_all_data) and the entry point (main).           *)
(*                                                                         *)
(* Strings that the program takes apart (column labels) are sequences of   *)
(* one-character strings.  A datetime is the tuple                         *)
(* <<year, month, day, hour, minute, second>>; Python's None is <<>>.      *)
(***************************************************************************)
EXTENDS Integers, Sequences, FiniteSets, TLC

VARIABLES
    pc,             \* position of the running function
    time_str,       \* parse_time_column: the label being parsed
    year,           \* parse_time_column / extract_variable_from_csv: the year
    parsed,         \* parse_time_column: the returned value
    df,             \* extract_variable_from_csv: the table read from the CSV file
    variable_names, \* extract_variable_from_csv: the requested variables
    extracted,      \* extract_variable_from_csv: the returned frame
    site_config,    \* process_all_data: the loaded configuration
    site_i,         \* process_all_data: index of the station being processed
    files,          \* process_all_data: power_files / site_files, sorted
    file_i,         \* process_all_data: index of the next file to read
    dfs,            \* process_all_data: power_dfs / site_dfs
    combined,       \* process_all_data: combined_power / combined_site
    var_i,          \* process_all_data: index in the running loop over variables
    variable_data,  \* process_all_data: the dict variable name -> frame
    merged_df,      \* process_all_data: the table being assembled
    touched,        \* main: whether a configuration or data file has been opened
    checked,        \* main: the results of the existence checks made so far
    output,         \* main: the tables written to output_path, <<>> if none was written
    error,          \* main: the exception raised inside the try block, "" if none
    n_input         \* the number of CSV files found and time columns read so far

uvars == <<time_str, parsed, df, variable_names, extracted>>
pvars == <<site_config, site_i, files, file_i, dfs, combined, var_i,
           variable_data, merged_df, touched, checked, output, error, n_input>>
vars == <<pc, year, uvars, pvars>>

(***************************************************************************)
(* Python values                                                           *)
(***************************************************************************)
None == <<>>

Digits == {"0", "1", "2", "3", "4", "5", "6", "7", "8", "9"}

DigitVal(c) ==
    CASE c = "0" -> 0 [] c = "1" -> 1 [] c = "2" -> 2 [] c = "3" -> 3
      [] c = "4" -> 4 [] c = "5" -> 5 [] c = "6" -> 6 [] c = "7" -> 7
      [] c = "8" -> 8 [] c = "9" -> 9

Min(a, b) == IF a < b THEN a ELSE b

\* s[lo:hi] of Python, for 0 <= lo <= hi: indices past the end are clamped.
Slice(s, lo, hi) == SubSeq(s, lo + 1, Min(hi, Len(s)))

\* str.split(sep) for a one-character separator: the parts between separators.
RECURSIVE split(_, _)
split(s, sep) ==
    IF \A i \in 1..Len(s) : s[i] # sep
    THEN <<s>>
    ELSE LET i == CHOOSE k \in 1..Len(s) :
                      s[k] = sep /\ \A j \in 1..(k - 1) : s[j] # sep
         IN  <<SubSeq(s, 1, i - 1)>> \o split(SubSeq(s, i + 1, Len(s)), sep)

\* The value int() returns when it raises ValueError.
IntError == 0 - 1

RECURSIVE LStrip(_)
LStrip(s) == IF s # <<>> /\ s[1] = " " THEN LStrip(Tail(s)) ELSE s

RECURSIVE RStrip(_)
RStrip(s) ==
    IF s # <<>> /\ s[Len(s)] = " " THEN RStrip(SubSeq(s, 1, Len(s) - 1)) ELSE s

RECURSIVE DecVal(_)
DecVal(s) ==
    IF s = <<>> THEN 0
    ELSE 10 * DecVal(SubSeq(s, 1, Len(s) - 1)) + DigitVal(s[Len(s)])

\* int(s) for a string without "-" and "_": surrounding blanks are stripped,
\* one leading "+" is accepted, the rest must be one or more decimal digits.
int(s) ==
    LET t == RStrip(LStrip(s))
        u == IF t # <<>> /\ t[1] = "+" THEN Tail(t) ELSE t
    IN  IF u # <<>> /\ \A i \in 1..Len(u) : u[i] \in Digits
        THEN DecVal(u)
        ELSE IntError

IsLeap(y) == (y % 4 = 0 /\ y % 100 # 0) \/ y % 400 = 0

DaysInMonth(y, m) ==
    IF m = 2 THEN (IF IsLeap(y) THEN 29 ELSE 28)
    ELSE IF m \in {4, 6, 9, 11} THEN 30 ELSE 31

\* datetime(y, mo, d, h, mi, s): the timestamp, or None where the constructor
\* raises ValueError (a field out of range), which line 23 turns into None.
datetime(y, mo, d, h, mi, s) ==
    IF /\ y \in 1..9999
       /\ mo \in 1..12
       /\ d >= 1 /\ d <= DaysInMonth(y, mo)
       /\ h \in 0..23
       /\ mi \in 0..59
       /\ s \in 0..59
    THEN <<y, mo, d, h, mi, s>>
    ELSE None

\* The two-way unpacking of line 15: exactly two parts, or ValueError.
UnpackOk(parts) == Len(parts) = 2

month_of(month_day) == Slice(month_day, 0, 2)
day_of_shifted(month_day) == Slice(month_day, 1, 3)
day_of(month_day) == Slice(month_day, 2, 4)
hour_of(time_part) == Slice(time_part, 0, 2)
minute_of(time_part) == Slice(time_part, 2, 4)
second_of(time_part) == Slice(time_part, 4, 6)

parse_time_column(label, y) ==
    LET parts == split(label, "-")
    IN  IF ~UnpackOk(parts) THEN None
        ELSE LET month_day == parts[1]
                 time_part == parts[2]
                 month  == int(month_of(month_day))
                 day    == int(day_of(month_day))
                 hour   == int(hour_of(time_part))
                 minute == int(minute_of(time_part))
                 second == int(second_of(time_part))
             IN  IF IntError \in {month, day, hour, minute, second}
                 THEN None
                 ELSE datetime(y, month, day, hour, minute, second)

(***************************************************************************)
(* Frames.  A frame (pandas DataFrame) is its sequence of column names and *)
(* its sequence of rows; a row is a function from the column names to      *)
(* cells.  The cell of the time column is a datetime, every other cell is  *)
(* a number or NULL (None / NaN).                                          *)
(***************************************************************************)
TimeCol == "time"   \* the column named '时间'
NULL == 0

Range(s) == {s[i] : i \in 1..Len(s)}

\* dict key order: each key once, at its first insertion.
RECURSIVE Keys(_)
Keys(s) ==
    IF s = <<>> THEN <<>>
    ELSE LET init == Keys(SubSeq(s, 1, Len(s) - 1))
             last == s[Len(s)]
         IN  IF last \in Range(init) THEN init ELSE Append(init, last)

\* df.columns[4:]
time_columns_of(d) == Slice(d.columns, 4, Len(d.columns))

\* [i for i, t in enumerate(timestamps) if t is not None], from index i on.
RECURSIVE valid_indices_from(_, _, _)
valid_indices_from(tc, y, i) ==
    IF i > Len(tc) THEN <<>>
    ELSE (IF parse_time_column(tc[i], y) # None THEN <<i>> ELSE <<>>)
         \o valid_indices_from(tc, y, i + 1)

valid_indices_of(tc, y) == valid_indices_from(tc, y, 1)

\* df[df[key] == var_name]: the indices of the matching rows, ascending.
RECURSIVE matching_rows_from(_, _, _, _)
matching_rows_from(d, key, var_name, i) ==
    IF i > Len(d.rows) THEN <<>>
    ELSE (IF d.rows[i][key] = var_name THEN <<i>> ELSE <<>>)
         \o matching_rows_from(d, key, var_name, i + 1)

matching_rows(d, key, var_name) == matching_rows_from(d, key, var_name, 1)

\* row[label]: the cell of the column carrying that label.
CellAt(d, r, label) ==
    LET j == CHOOSE k \in 5..Len(d.columns) : d.columns[k] = label
    IN  d.rows[r].values[j - 4]

values_of_point_first(d, var_name, kept) ==
    LET byDesc  == matching_rows(d, "desc", var_name)
        byPoint == matching_rows(d, "point", var_name)
    IN  IF byPoint # <<>>
        THEN [k \in 1..Len(kept) |-> CellAt(d, byPoint[1], kept[k])]
        ELSE IF byDesc # <<>>
             THEN [k \in 1..Len(kept) |-> CellAt(d, byDesc[1], kept[k])]
             ELSE [k \in 1..Len(kept) |-> NULL]

\* Lines 62-78 for one variable: the values over the kept time columns.
values_of(d, var_name, kept) ==
    LET byDesc  == matching_rows(d, "desc", var_name)
        byPoint == matching_rows(d, "point", var_name)
    IN  IF byDesc # <<>>
        THEN [k \in 1..Len(kept) |-> CellAt(d, byDesc[1], kept[k])]
        ELSE IF byPoint # <<>>
             THEN [k \in 1..Len(kept) |-> CellAt(d, byPoint[1], kept[k])]
             ELSE [k \in 1..Len(kept) |-> NULL]

extract_variable_from_csv(d, names, y) ==
    LET all_columns   == time_columns_of(d)
        valid_indices == valid_indices_of(all_columns, y)
        timestamps    == [k \in 1..Len(valid_indices) |->
                             parse_time_column(all_columns[valid_indices[k]], y)]
        time_columns  == [k \in 1..Len(valid_indices) |->
                             all_columns[valid_indices[k]]]
        keys          == Keys(<<TimeCol>> \o names)
    IN  [columns |-> keys,
         rows    |-> [k \in 1..Len(timestamps) |->
                        [c \in Range(keys) |->
                            IF c = TimeCol THEN timestamps[k]
                            ELSE values_of(d, c, time_columns)[k]]]]

(***************************************************************************)
(* pandas operations used by process_all_data                              *)
(***************************************************************************)
NoFrame == [columns |-> <<>>, rows |-> <<>>]

\* t < u for datetimes: lexicographic on (year, month, day, hour, minute, second).
TimeLess(t, u) ==
    \E i \in 1..6 : t[i] < u[i] /\ \A j \in 1..(i - 1) : t[j] = u[j]

Times(f) == {f.rows[i][TimeCol] : i \in 1..Len(f.rows)}

\* sorted(S) for a set of datetimes.
RECURSIVE sorted_times(_)
sorted_times(S) ==
    IF S = {} THEN <<>>
    ELSE LET m == CHOOSE t \in S : \A u \in S : ~TimeLess(u, t)
         IN  <<m>> \o sorted_times(S \ {m})

\* sorted(names) for a set of file names.
RECURSIVE sorted(_)
sorted(S) ==
    IF S = {} THEN <<>>
    ELSE LET m == CHOOSE x \in S : \A y \in S : x <= y
         IN  <<m>> \o sorted(S \ {m})

RECURSIVE FlattenRows(_)
FlattenRows(frames) ==
    IF frames = <<>> THEN <<>>
    ELSE frames[1].rows \o FlattenRows(Tail(frames))

\* pd.concat(frames, ignore_index=True) of frames with the same columns.
concat(frames) == [columns |-> frames[1].columns, rows |-> FlattenRows(frames)]

\* The rows of a sequence whose time is not among those of the rows behind it.
RECURSIVE LastOccurrences(_)
LastOccurrences(rows) ==
    IF rows = <<>> THEN <<>>
    ELSE LET rest == LastOccurrences(Tail(rows))
         IN  IF \E i \in 1..Len(rest) : rest[i][TimeCol] = rows[1][TimeCol]
             THEN rest
             ELSE <<rows[1]>> \o rest

\* The rows of a sequence whose time is not among those of the rows before it.
RECURSIVE FirstOccurrences(_)
FirstOccurrences(rows) ==
    IF rows = <<>> THEN <<>>
    ELSE LET init == FirstOccurrences(SubSeq(rows, 1, Len(rows) - 1))
             last == rows[Len(rows)]
         IN  IF \E i \in 1..Len(init) : init[i][TimeCol] = last[TimeCol]
             THEN init
             ELSE Append(init, last)

keep_duplicates(f) == f

\* frame.drop_duplicates(subset=['时间']): keep='first'.
drop_duplicates(f) == [columns |-> f.columns, rows |-> FirstOccurrences(f.rows)]

\* Insert a row behind every row whose time is not later (a stable insertion).
RECURSIVE InsertByTime(_, _)
InsertByTime(rows, r) ==
    IF rows = <<>> THEN <<r>>
    ELSE IF TimeLess(r[TimeCol], rows[1][TimeCol])
         THEN <<r>> \o rows
         ELSE <<rows[1]>> \o InsertByTime(Tail(rows), r)

RECURSIVE SortRows(_)
SortRows(rows) ==
    IF rows = <<>> THEN <<>>
    ELSE InsertByTime(SortRows(SubSeq(rows, 1, Len(rows) - 1)), rows[Len(rows)])

\* frame.sort_values('时间').reset_index(drop=True)
sort_values(f) == [columns |-> f.columns, rows |-> SortRows(f.rows)]

combine_keep_last(frames) ==
    sort_values([columns |-> concat(frames).columns,
                 rows    |-> LastOccurrences(concat(frames).rows)])

\* Lines 119-121 and 145-147: concatenate, deduplicate, sort.
combine(frames) == sort_values(drop_duplicates(concat(frames)))

\* frame[['时间', var]]
select(f, var) ==
    [columns |-> <<TimeCol, var>>,
     rows    |-> [i \in 1..Len(f.rows) |->
                    [c \in {TimeCol, var} |-> f.rows[i][c]]]]

RowsAt(f, t) ==
    LET AtT(r) == r[TimeCol] = t
    IN  SelectSeq(f.rows, AtT)

combine_last(a, b) == IF b # NULL THEN b ELSE a

\* s.combine_first(other) on one cell.
combine_first(a, b) == IF a # NULL THEN a ELSE b

\* The rows an outer join yields for one key: every pairing of the left rows
\* with the right rows, a side without rows contributing nulls; line 161 then
\* fills the left value from the right one and line 162 drops the right column.
RECURSIVE PairRows(_, _, _, _)
PairRows(L, R, t, var) ==
    IF L = <<>> /\ R = <<>> THEN <<>>
    ELSE IF L = <<>>
         THEN [i \in 1..Len(R) |->
                  [c \in {TimeCol, var} |->
                      IF c = TimeCol THEN t ELSE combine_first(NULL, R[i][var])]]
         ELSE IF R = <<>>
              THEN [i \in 1..Len(L) |->
                       [c \in {TimeCol, var} |->
                           IF c = TimeCol THEN t ELSE combine_first(L[i][var], NULL)]]
              ELSE [i \in 1..Len(R) |->
                       [c \in {TimeCol, var} |->
                           IF c = TimeCol THEN t
                           ELSE combine_first(L[1][var], R[i][var])]]
                   \o (IF Len(L) > 1 THEN PairRows(Tail(L), R, t, var) ELSE <<>>)

RECURSIVE OuterRows(_, _, _, _)
OuterRows(existing_df, new_df, keys, var) ==
    IF keys = <<>> THEN <<>>
    ELSE PairRows(RowsAt(existing_df, keys[1]), RowsAt(new_df, keys[1]), keys[1], var)
         \o OuterRows(existing_df, new_df, Tail(keys), var)

\* Lines 158-162: pd.merge(existing_df, new_df, on='时间', how='outer'), the
\* keys in ascending order, then combine_first and the drop of the '_new' column.
fill_merge(existing_df, new_df, var) ==
    [columns |-> <<TimeCol, var>>,
     rows    |-> OuterRows(existing_df, new_df,
                           sorted_times(Times(existing_df) \cup Times(new_df)), var)]

OtherColumns(f) ==
    LET NotTime(c) == c # TimeCol
    IN  SelectSeq(f.columns, NotTime)

\* The rows a left join yields for one left row: one per matching right row, or
\* one with nulls in the right columns when no right row matches.
LeftRowsFor(l, right, cols) ==
    LET M == RowsAt(right, l[TimeCol])
    IN  IF M = <<>>
        THEN << [c \in Range(cols) |-> IF c \in DOMAIN l THEN l[c] ELSE NULL] >>
        ELSE [i \in 1..Len(M) |->
                 [c \in Range(cols) |-> IF c \in DOMAIN l THEN l[c] ELSE M[i][c]]]

RECURSIVE LeftRows(_, _, _)
LeftRows(rows, right, cols) ==
    IF rows = <<>> THEN <<>>
    ELSE LeftRowsFor(rows[1], right, cols) \o LeftRows(Tail(rows), right, cols)

\* Line 181: pd.merge(merged_df, df, on='时间', how='left')
merge_left(left, right) ==
    LET cols == left.columns \o OtherColumns(right)
    IN  [columns |-> cols, rows |-> LeftRows(left.rows, right, cols)]

skeleton_first_key(vd) ==
    LET all_times == sorted_times(Times(vd.frames[vd.keys[1]]))
    IN  [columns |-> <<TimeCol>>,
         rows    |-> [i \in 1..Len(all_times) |->
                        [c \in {TimeCol} |-> all_times[i]]]]

\* Lines 171-176: the skeleton over the sorted set of all time points.
skeleton(vd) ==
    LET all_times == sorted_times(UNION {Times(vd.frames[k]) : k \in Range(vd.keys)})
    IN  [columns |-> <<TimeCol>>,
         rows    |-> [i \in 1..Len(all_times) |->
                        [c \in {TimeCol} |-> all_times[i]]]]

target_variable == "P"   \* '发电机有功功率输出1'

reorder_none(f) == f

\* Lines 187-190: the target variable moved behind every other column.
reorder(f) ==
    IF target_variable \in Range(f.columns)
    THEN LET NotTarget(c) == c # target_variable
         IN  [columns |-> Append(SelectSeq(f.columns, NotTarget), target_variable),
              rows    |-> f.rows]
    ELSE f

\* variable_data[var] = f, for a new key or an existing one.
dict_set(vd, var, f) ==
    [keys   |-> IF var \in Range(vd.keys) THEN vd.keys ELSE Append(vd.keys, var),
     frames |-> [k \in Range(vd.keys) \cup {var} |->
                   IF k = var THEN f ELSE vd.frames[k]]]

EmptyDict == [keys |-> <<>>, frames |-> <<>>]

(***************************************************************************)
(* Inputs                                                                  *)
(***************************************************************************)
MaxCols == 2      \* time columns of one CSV file
MaxRows == 2      \* rows of the CSV file handed to the extractor
MaxNames == 2     \* length of the list of requested variables
MaxInput == 4     \* CSV files plus their time columns under the base directory
MaxSites == 2     \* stations of the configuration

DefaultYear == 2022

SeqsUpTo(S, n) == UNION {[1..k -> S] : k \in 0..n}

Injective(s) == \A i, j \in 1..Len(s) : s[i] = s[j] => i = j

\* Column labels of the CSV files: two points in time, a label with a suffix
\* past the seconds (as the reader appends to a repeated label), and a label
\* with a day that does not exist.
LabelA    == <<"0", "1", "0", "5", "-", "1", "0", "0", "0", "0", "0">>
LabelB    == <<"0", "1", "0", "5", "-", "1", "1", "0", "0", "0", "0">>
LabelA1   == <<"0", "1", "0", "5", "-", "1", "0", "0", "0", "0", "0", ".", "1">>
LabelBad  == <<"0", "2", "3", "0", "-", "0", "0", "0", "0", "0", "0">>
FileLabels == {LabelA, LabelB, LabelA1, LabelBad}

\* The four leading columns of a CSV file.
LeadingColumns == << <<"n", "o">>, <<"i", "d">>, <<"d", "s">>, <<"u">> >>

\* The reader makes column labels unique.
ColumnSeqs == {s \in SeqsUpTo(FileLabels, MaxCols) : Injective(s)}

\* A cell's content names where it stands: the file, the row and the column.
Tag(origin, r, c) == origin * 100 + r * 10 + c

\* The table of a CSV file: rs[r] gives row r's description, its point name
\* and the time column (0 for none) at which its cell is empty.
RawTable(origin, tcols, rs) ==
    [columns |-> LeadingColumns \o tcols,
     rows    |-> [r \in 1..Len(rs) |->
                    [desc   |-> rs[r].desc,
                     point  |-> rs[r].point,
                     values |-> [c \in 1..Len(tcols) |->
                                   IF c = rs[r].nullAt THEN NULL
                                   ELSE Tag(origin, r, c)]]]]

ExtractNames == {"a", "b"}
ExtractRows == [desc : ExtractNames, point : ExtractNames]
RequestNames == {"a", "c"}
ExtractColumnSeqs == {s \in ColumnSeqs : LabelA1 \notin Range(s)}
\* The extractor's tables: any rows, their first cell empty or none empty.
ExtractTables ==
    {RawTable(1, tc, [r \in 1..Len(rs) |->
                        [desc |-> rs[r].desc, point |-> rs[r].point, nullAt |-> n]]) :
        tc \in ExtractColumnSeqs, rs \in SeqsUpTo(ExtractRows, MaxRows), n \in {0, 1}}
ExtractLists == SeqsUpTo(RequestNames, MaxNames)

\* Pipeline files: the rows are those of a subset of the variables, each found
\* by its description; every cell of time column c holds origin * 10 + c.
PipelineColumnSeqs == {s \in ColumnSeqs : LabelBad \notin Range(s)}
PipelineRowSeqs == {<<>>, <<"P", "a">>, <<"a", "b">>}
PipelineTable(origin, tcols, present) ==
    [columns |-> LeadingColumns \o tcols,
     rows    |-> [r \in 1..Len(present) |->
                    [desc   |-> present[r],
                     point  |-> "-",
                     values |-> [c \in 1..Len(tcols) |-> origin * 10 + c]]]]
PipelineTables(origin, room) ==
    {PipelineTable(origin, tc, present) :
        tc \in {s \in PipelineColumnSeqs : Len(s) <= room},
        present \in PipelineRowSeqs}

\* The names glob can find in one folder when n files are left to find.
Listings(n) == {1..k : k \in 0..n}

SiteNames == <<"S1", "S2", "S3">>
VariableLists == {<<"a", "b">>, <<"P", "a">>}
Configs ==
    {[i \in 1..Len(vl) |-> [site |-> SiteNames[i], variables |-> vl[i]]] :
        vl \in SeqsUpTo(VariableLists, MaxSites)}

(***************************************************************************)
(* parse_time_column on its own                                            *)
(***************************************************************************)
MonthStrs == {<<"0", "1">>, <<"0", "2">>, <<"0", "4">>, <<"1", "2">>,
              <<"0", "0">>, <<"1", "3">>, <<"1", "a">>, <<"+", "2">>}
DayStrs   == {<<"0", "1">>, <<"2", "9">>, <<"3", "0">>, <<"3", "1">>,
              <<"0", "0">>, <<"3", "2">>}
HourStrs  == {<<"0", "0">>, <<"2", "3">>, <<"2", "4">>}
SixtyStrs == {<<"0", "0">>, <<"5", "9">>, <<"6", "0">>}

MonthDays == {m \o d : m \in MonthStrs, d \in DayStrs}
DayTimes  == {h \o mi \o s : h \in HourStrs, mi \in SixtyStrs, s \in SixtyStrs}

\* Labels of the shape MMDD-HHMMSS, fields in and out of range.
ShapedLabels == {md \o <<"-">> \o tm : md \in MonthDays, tm \in DayTimes}

\* Labels of other shapes, built from a few of the fields.
FewMonthDays == {<<"0", "1", "0", "5">>, <<"1", "3", "0", "5">>}
FewDayTimes  == {<<"1", "0", "0", "0", "0", "0">>, <<"1", "0", "0", "0", "6", "0">>}
Extras == {<<"7">>, <<".", "1">>, <<" ">>, <<"-">>, <<"-", "1">>}
OtherLabels ==
    UNION {
        {md \o <<"-">> \o tm \o x,                       \* too long behind
         md \o x \o <<"-">> \o tm,                       \* too long before the dash
         md \o <<"-">> \o SubSeq(tm, 1, 5),              \* too short behind
         md \o <<"-">> \o SubSeq(tm, 1, 4),
         SubSeq(md, 1, 3) \o <<"-">> \o tm,              \* too short before the dash
         SubSeq(md, 1, 2) \o <<"-">> \o tm,
         md \o tm,                                       \* no dash
         x \o md \o <<"-">> \o tm,
         <<>>} :
        md \in FewMonthDays, tm \in FewDayTimes, x \in Extras}

Labels == ShapedLabels \cup OtherLabels
Years == {DefaultYear, 2024}

Idle ==
    /\ site_config = <<>>
    /\ site_i = 0
    /\ files = <<>>
    /\ file_i = 0
    /\ dfs = <<>>
    /\ combined = NoFrame
    /\ var_i = 0
    /\ variable_data = EmptyDict
    /\ merged_df = NoFrame
    /\ touched = FALSE
    /\ checked = <<>>
    /\ output = <<>>
    /\ error = ""
    /\ n_input = 0

InitParse ==
    /\ pc = "parse"
    /\ time_str \in Labels
    /\ year \in Years
    /\ parsed = None
    /\ df = NoFrame
    /\ variable_names = <<>>
    /\ extracted = NoFrame
    /\ Idle

Parse ==
    /\ pc = "parse"
    /\ parsed' = parse_time_column(time_str, year)
    /\ pc' = "parsed"
    /\ UNCHANGED <<time_str, year, df, variable_names, extracted, pvars>>

NextParse == Parse

SpecParse == InitParse /\ [][NextParse]_vars

(***************************************************************************)
(* extract_variable_from_csv on its own                                    *)
(***************************************************************************)
InitExtract ==
    /\ pc = "extract"
    /\ time_str = <<>>
    /\ year = DefaultYear
    /\ parsed = None
    /\ df \in ExtractTables
    /\ variable_names \in ExtractLists
    /\ extracted = NoFrame
    /\ Idle

Extract ==
    /\ pc = "extract"
    /\ extracted' = extract_variable_from_csv(df, variable_names, year)
    /\ pc' = "extracted"
    /\ UNCHANGED <<time_str, year, parsed, df, variable_names, pvars>>

NextExtract == Extract

SpecExtract == InitExtract /\ [][NextExtract]_vars

(***************************************************************************)
(* main and process_all_data                                               *)
(***************************************************************************)
Init ==
    /\ pc = "check_config"
    /\ time_str = <<>>
    /\ year = DefaultYear
    /\ parsed = None
    /\ df = NoFrame
    /\ variable_names = <<>>
    /\ extracted = NoFrame
    /\ Idle

\* Lines 214-216: the configuration file exists, or main reports and returns.
CheckConfig ==
    /\ pc = "check_config"
    /\ \E exists \in BOOLEAN :
          /\ checked' = Append(checked, exists)
          /\ pc' = IF exists THEN "check_base" ELSE "returned"
    /\ UNCHANGED <<year, uvars, site_config, site_i, files, file_i, dfs, combined,
                   var_i, variable_data, merged_df, touched, output, error, n_input>>

CheckBaseGoesOn ==
    /\ pc = "check_base"
    /\ \E exists \in BOOLEAN : checked' = Append(checked, exists)
    /\ pc' = "load_config"
    /\ UNCHANGED <<year, uvars, site_config, site_i, files, file_i, dfs, combined,
                   var_i, variable_data, merged_df, touched, output, error, n_input>>

\* Lines 218-220: the data folder exists, or main reports and returns.
CheckBase ==
    /\ pc = "check_base"
    /\ \E exists \in BOOLEAN :
          /\ checked' = Append(checked, exists)
          /\ pc' = IF exists THEN "load_config" ELSE "returned"
    /\ UNCHANGED <<year, uvars, site_config, site_i, files, file_i, dfs, combined,
                   var_i, variable_data, merged_df, touched, output, error, n_input>>

\* Lines 95-102: the configuration is opened and parsed; json.load raises on
\* a file that is not JSON.
LoadConfig ==
    /\ pc = "load_config"
    /\ touched' = TRUE
    /\ \/ /\ \E cfg \in Configs : site_config' = cfg
          /\ variable_data' = EmptyDict
          /\ pc' = "glob_power"
          /\ error' = error
       \/ /\ error' = "JSONDecodeError"
          /\ pc' = "except"
          /\ UNCHANGED <<site_config, variable_data>>
    /\ UNCHANGED <<year, uvars, site_i, files, file_i, dfs, combined, var_i,
                   merged_df, output, n_input, checked>>

\* Lines 109-111: the power folder's files, sorted by name.
GlobPower ==
    /\ pc = "glob_power"
    /\ \E found \in Listings(MaxInput - n_input) :
          /\ files' = sorted(found)
          /\ n_input' = n_input + Cardinality(found)
    /\ file_i' = 1
    /\ dfs' = <<>>
    /\ pc' = "read_power"
    /\ UNCHANGED <<year, uvars, site_config, site_i, combined, var_i,
                   variable_data, merged_df, touched, output, error, checked>>

\* Lines 112-115: one power file is read and the target variable extracted.
ReadPower ==
    /\ pc = "read_power"
    /\ file_i <= Len(files)
    /\ \E table \in PipelineTables(files[file_i], MaxInput - n_input) :
          /\ dfs' = Append(dfs, extract_variable_from_csv(
                                    table, <<target_variable>>, year))
          /\ n_input' = n_input + Len(time_columns_of(table))
    /\ file_i' = file_i + 1
    /\ UNCHANGED <<pc, year, uvars, site_config, site_i, files, combined, var_i,
                   variable_data, merged_df, touched, output, error, checked>>

\* Lines 118-122: the power frames combined and stored under the target variable.
CombinePower ==
    /\ pc = "read_power"
    /\ file_i > Len(files)
    /\ IF dfs # <<>>
       THEN /\ combined' = combine(dfs)
            /\ variable_data' = dict_set(variable_data, target_variable, combine(dfs))
       ELSE UNCHANGED <<combined, variable_data>>
    /\ site_i' = 1
    /\ pc' = "glob_site"
    /\ UNCHANGED <<year, uvars, site_config, files, file_i, dfs, var_i,
                   merged_df, touched, output, error, n_input, checked>>

\* Lines 129-137: the next station's files, sorted by name.
GlobSite ==
    /\ pc = "glob_site"
    /\ site_i <= Len(site_config)
    /\ \E found \in Listings(MaxInput - n_input) :
          /\ files' = sorted(found)
          /\ n_input' = n_input + Cardinality(found)
    /\ file_i' = 1
    /\ dfs' = <<>>
    /\ pc' = "read_site"
    /\ UNCHANGED <<year, uvars, site_config, site_i, combined, var_i,
                   variable_data, merged_df, touched, output, error, checked>>

\* Lines 138-141: one file of the station is read and its variables extracted.
ReadSite ==
    /\ pc = "read_site"
    /\ file_i <= Len(files)
    /\ \E table \in PipelineTables(10 * site_i + files[file_i], MaxInput - n_input) :
          /\ dfs' = Append(dfs, extract_variable_from_csv(
                                    table, site_config[site_i].variables, year))
          /\ n_input' = n_input + Len(time_columns_of(table))
    /\ file_i' = file_i + 1
    /\ UNCHANGED <<pc, year, uvars, site_config, site_i, files, combined, var_i,
                   variable_data, merged_df, touched, output, error, checked>>

\* Lines 144-147: the station's frames combined; without files the station
\* contributes nothing.
CombineSite ==
    /\ pc = "read_site"
    /\ file_i > Len(files)
    /\ IF dfs # <<>>
       THEN /\ combined' = combine(dfs)
            /\ var_i' = 1
            /\ pc' = "merge_var"
            /\ UNCHANGED site_i
       ELSE /\ site_i' = site_i + 1
            /\ pc' = "glob_site"
            /\ UNCHANGED <<combined, var_i>>
    /\ UNCHANGED <<year, uvars, site_config, files, file_i, dfs,
                   variable_data, merged_df, touched, output, error, n_input, checked>>

\* Lines 150-163 for one variable of the station.
store_variable(vd, combined_site, var) ==
    IF var \in Range(combined_site.columns)
    THEN IF var \notin Range(vd.keys)
         THEN dict_set(vd, var, select(combined_site, var))
         ELSE dict_set(vd, var,
                       fill_merge(vd.frames[var], select(combined_site, var), var))
    ELSE vd

MergeVar ==
    /\ pc = "merge_var"
    /\ var_i <= Len(site_config[site_i].variables)
    /\ variable_data' =
          store_variable(variable_data, combined, site_config[site_i].variables[var_i])
    /\ var_i' = var_i + 1
    /\ UNCHANGED <<pc, year, uvars, site_config, site_i, files, file_i, dfs,
                   combined, merged_df, touched, output, error, n_input, checked>>

\* The loop over the station's variables ends; on to the next station.
NextSite ==
    /\ pc = "merge_var"
    /\ var_i > Len(site_config[site_i].variables)
    /\ site_i' = site_i + 1
    /\ pc' = "glob_site"
    /\ UNCHANGED <<year, uvars, site_config, files, file_i, dfs, combined, var_i,
                   variable_data, merged_df, touched, output, error, n_input, checked>>

\* Lines 167-168: nothing collected.
has_no_data(vd) == vd.keys = <<>>

\* Lines 166-176: ValueError without data, else the skeleton of all time points.
StartAssembly ==
    /\ pc = "glob_site"
    /\ site_i > Len(site_config)
    /\ IF has_no_data(variable_data)
       THEN /\ error' = "ValueError"
            /\ pc' = "except"
            /\ UNCHANGED <<merged_df, var_i>>
       ELSE /\ merged_df' = skeleton(variable_data)
            /\ var_i' = 1
            /\ pc' = "join_var"
            /\ UNCHANGED error
    /\ UNCHANGED <<year, uvars, site_config, site_i, files, file_i, dfs, combined,
                   variable_data, touched, output, n_input, checked>>

\* Lines 179-181 for one variable.
JoinVar ==
    /\ pc = "join_var"
    /\ var_i <= Len(variable_data.keys)
    /\ merged_df' = merge_left(merged_df, variable_data.frames[variable_data.keys[var_i]])
    /\ var_i' = var_i + 1
    /\ UNCHANGED <<pc, year, uvars, site_config, site_i, files, file_i, dfs,
                   combined, variable_data, touched, output, error, n_input, checked>>

\* Lines 184-196: sort by time, move the target variable last, return.
finish(f) == reorder(sort_values(f))

Finish ==
    /\ pc = "join_var"
    /\ var_i > Len(variable_data.keys)
    /\ merged_df' = finish(merged_df)
    /\ pc' = "write_csv"
    /\ UNCHANGED <<year, uvars, site_config, site_i, files, file_i, dfs, combined,
                   var_i, variable_data, touched, output, error, n_input, checked>>

\* Line 228: the returned table is written to output_path.
WriteCsv ==
    /\ pc = "write_csv"
    /\ output' = Append(output, merged_df)
    /\ pc' = "returned"
    /\ UNCHANGED <<year, uvars, site_config, site_i, files, file_i, dfs, combined,
                   var_i, variable_data, merged_df, touched, error, n_input, checked>>

\* Lines 243-246: the exception is reported and main returns.
Except ==
    /\ pc = "except"
    /\ pc' = "returned"
    /\ UNCHANGED <<year, uvars, pvars>>

Next ==
    \/ CheckConfig
    \/ CheckBase
    \/ LoadConfig
    \/ GlobPower
    \/ ReadPower
    \/ CombinePower
    \/ GlobSite
    \/ ReadSite
    \/ CombineSite
    \/ MergeVar
    \/ NextSite
    \/ StartAssembly
    \/ JoinVar
    \/ Finish
    \/ WriteCsv
    \/ Except

Spec == Init /\ [][Next]_vars

(***************************************************************************)
(* Properties of parse_time_column (checked under SpecParse)               *)
(***************************************************************************)
CalendarDays(y, m) ==
    CASE m \in {1, 3, 5, 7, 8, 10, 12} -> 31
      [] m \in {4, 6, 9, 11} -> 30
      [] m = 2 -> IF y % 4 = 0 /\ (y % 100 # 0 \/ y % 400 = 0) THEN 29 ELSE 28

\* The two-digit number written at positions i and i + 1 of a label.
Field(label, i) == 10 * DigitVal(label[i]) + DigitVal(label[i + 1])

\* The label has the form MMDD-HHMMSS and every field is in range.
WellFormed(label, y) ==
    /\ Len(label) = 11
    /\ label[5] = "-"
    /\ \A i \in (1..11) \ {5} : label[i] \in Digits
    /\ Field(label, 1) \in 1..12
    /\ Field(label, 3) >= 1
    /\ Field(label, 3) <= CalendarDays(y, Field(label, 1))
    /\ Field(label, 6) \in 0..23
    /\ Field(label, 8) \in 0..59
    /\ Field(label, 10) \in 0..59

DigitChar(n) == CHOOSE c \in Digits : DigitVal(c) = n

TwoDigits(n) == <<DigitChar(n \div 10), DigitChar(n % 10)>>

\* A timestamp written back as MMDD-HHMMSS.
Format(t) ==
    TwoDigits(t[2]) \o TwoDigits(t[3]) \o <<"-">>
    \o TwoDigits(t[4]) \o TwoDigits(t[5]) \o TwoDigits(t[6])

\* C5: every malformed label (wrong length on either side of the dash, missing
\* or extra dash, non-numeric fragment, field out of range) parses to None.
C5_MalformedIsNone ==
    (pc = "parsed" /\ ~WellFormed(time_str, year)) => parsed = None

\* C6: a label MMDD-HHMMSS with every field in range parses to the timestamp
\* (year, MM, DD, HH, MM, SS), and the label can be read back from the
\* timestamp, so distinct valid labels give distinct timestamps.
C6_RoundTrip ==
    (pc = "parsed" /\ WellFormed(time_str, year)) =>
        /\ parsed = <<year, Field(time_str, 1), Field(time_str, 3),
                      Field(time_str, 6), Field(time_str, 8), Field(time_str, 10)>>
        /\ Format(parsed) = time_str

\* A leap day, valid in 2024 only, has been parsed.
C6_Witness ==
    /\ pc = "parsed"
    /\ WellFormed(time_str, year)
    /\ parsed = <<2024, 2, 29, 23, 59, 59>>

(***************************************************************************)
(* Properties of extract_variable_from_csv (checked under SpecExtract)     *)
(***************************************************************************)
\* The positions, among the time columns, of the labels that parse.
ValidPositions ==
    {i \in 1..(Len(df.columns) - 4) : parse_time_column(df.columns[4 + i], year) # None}

\* The k-th valid position, in column order.
Position(k) ==
    CHOOSE i \in ValidPositions : Cardinality({j \in ValidPositions : j < i}) = k - 1

RowsWith(key, name) == {r \in 1..Len(df.rows) : df.rows[r][key] = name}

Least(S) == CHOOSE x \in S : \A y \in S : x <= y

\* The row a variable is read from, 0 if no row carries its name.
SourceRow(name) ==
    IF RowsWith("desc", name) # {} THEN Least(RowsWith("desc", name))
    ELSE IF RowsWith("point", name) # {} THEN Least(RowsWith("point", name))
    ELSE 0

\* C7: the extracted frame has one row per label that parsed, in column order;
\* the row's time is that label's timestamp and, for each requested variable,
\* its cell is the cell of that column in the first row matching by description,
\* else in the first row matching by point name, else null.
C7_LookupPolicy ==
    pc = "extracted" =>
        /\ Range(extracted.columns) = {TimeCol} \cup Range(variable_names)
        /\ Injective(extracted.columns)
        /\ extracted.columns[1] = TimeCol
        /\ Len(extracted.rows) = Cardinality(ValidPositions)
        /\ \A k \in 1..Len(extracted.rows) :
              /\ extracted.rows[k][TimeCol] =
                    parse_time_column(df.columns[4 + Position(k)], year)
              /\ \A n \in Range(variable_names) :
                    extracted.rows[k][n] =
                        IF SourceRow(n) = 0 THEN NULL
                        ELSE df.rows[SourceRow(n)].values[Position(k)]

\* An extraction with an unparseable column before a parseable one, a variable
\* found only by point name in the second row, and a variable not found at all.
C7_Witness ==
    /\ pc = "extracted"
    /\ Len(df.columns) = 6
    /\ ValidPositions = {2}
    /\ variable_names = <<"a", "c">>
    /\ RowsWith("desc", "a") = {}
    /\ RowsWith("point", "a") = {2}
    /\ SourceRow("c") = 0
    /\ extracted.rows[1]["c"] = NULL
    /\ extracted.rows[1]["a"] = Tag(1, 2, 2)

(***************************************************************************)
(* Properties of process_all_data and main (checked under Spec)            *)
(***************************************************************************)
StrictlyAscending(f) ==
    \A i, j \in 1..Len(f.rows) :
        i < j => TimeLess(f.rows[i][TimeCol], f.rows[j][TimeCol])

\* The non-null values a frame holds for a variable at a time.
ValuesAt(f, var, t) ==
    {f.rows[i][var] : i \in {k \in 1..Len(f.rows) : f.rows[k][TimeCol] = t}} \ {NULL}

\* The value of a series at a time: NULL where the series has no row at that
\* time or only an empty cell.
ValueAt(f, var, t) ==
    IF ValuesAt(f, var, t) = {} THEN NULL ELSE CHOOSE v \in ValuesAt(f, var, t) : TRUE

AllTimes == UNION {Times(variable_data.frames[k]) : k \in Range(variable_data.keys)}

\* process_all_data has returned its table to main.
Returned == pc = "write_csv"

\* C1: the returned table has exactly one row for each timestamp of any
\* collected series, in strictly ascending order, and a cell is null exactly
\* when the variable's series has no value at the row's timestamp.
C1_OneRowPerTimestamp ==
    Returned =>
        /\ Times(merged_df) = AllTimes
        /\ StrictlyAscending(merged_df)
        /\ \A i \in 1..Len(merged_df.rows) :
              \A k \in Range(variable_data.keys) :
                 merged_df.rows[i][k] =
                    ValueAt(variable_data.frames[k], k, merged_df.rows[i][TimeCol])

\* A returned table of two rows and three variables, whose first row has a
\* value for the target variable only and whose second row has none for it.
C1_Witness ==
    /\ Returned
    /\ Len(merged_df.rows) = 2
    /\ variable_data.keys = <<"P", "a", "b">>
    /\ merged_df.rows[1]["P"] # NULL
    /\ merged_df.rows[1]["a"] = NULL
    /\ merged_df.rows[2]["P"] = NULL
    /\ merged_df.rows[2]["a"] # NULL
    /\ Times(variable_data.frames["P"]) # Times(variable_data.frames["a"])

\* The step that stores the current variable of the current station.
StoresVariable == pc = "merge_var" /\ var_i' = var_i + 1

CurrentVar == site_config[site_i].variables[var_i]

\* C2: when a variable that is already in variable_data is collected again,
\* the merged series covers the timestamps of both, and its value at each is
\* the earlier (primary) value unless that is null, and then the new one.
C2_FirstNonNullWins ==
    [][(StoresVariable /\ CurrentVar \in Range(variable_data.keys)) =>
          /\ variable_data'.keys = variable_data.keys
          /\ Times(variable_data'.frames[CurrentVar]) =
                Times(variable_data.frames[CurrentVar]) \cup Times(combined)
          /\ \A t \in Times(variable_data'.frames[CurrentVar]) :
                ValueAt(variable_data'.frames[CurrentVar], CurrentVar, t) =
                   IF ValueAt(variable_data.frames[CurrentVar], CurrentVar, t) # NULL
                   THEN ValueAt(variable_data.frames[CurrentVar], CurrentVar, t)
                   ELSE ValueAt(combined, CurrentVar, t)
          /\ \A k \in Range(variable_data.keys) \ {CurrentVar} :
                variable_data'.frames[k] = variable_data.frames[k]]_vars

\* The cells of the power folder's files are below 100, those of a station's
\* files above.
FromPower(v) == v # NULL /\ v < 100

\* The target variable, collected from the power folder and again from station
\* 1, has been merged: at one timestamp both had a value and the power
\* folder's value stands.
C2_Witness ==
    /\ pc = "merge_var"
    /\ site_i = 1
    /\ site_config[1].variables = <<"P", "a">>
    /\ var_i = 2
    /\ \E t \in Times(combined) :
          /\ ValueAt(combined, "P", t) # NULL
          /\ ~FromPower(ValueAt(combined, "P", t))
          /\ FromPower(ValueAt(variable_data.frames["P"], "P", t))

\* C3: every series stored in variable_data, and every combined frame, has
\* strictly increasing timestamps, so no timestamp twice; the combined frame
\* has a row for every timestamp of the frames it was combined from.
C3_SeriesStrictlyIncreasing ==
    /\ \A k \in Range(variable_data.keys) : StrictlyAscending(variable_data.frames[k])
    /\ StrictlyAscending(combined)
    /\ (pc = "merge_var" /\ dfs # <<>>) =>
          Times(combined) = UNION {Times(dfs[i]) : i \in 1..Len(dfs)}

\* Two windows of a station that share a timestamp have been combined into one
\* row and stored.
C3_Witness ==
    /\ pc = "merge_var"
    /\ Len(dfs) = 2
    /\ Len(dfs[1].rows) = 1
    /\ Times(dfs[1]) = Times(dfs[2])
    /\ Len(combined.rows) = 1
    /\ var_i > Len(site_config[site_i].variables)
    /\ \A k \in Range(variable_data.keys) : Len(variable_data.frames[k].rows) = 1

\* The step that returns from process_all_data.
Returns == pc = "join_var" /\ pc' = "write_csv"

NotTargetColumn(c) == c # target_variable

\* C4: the returned table has the time column first and each collected
\* variable once; the target variable, if collected, is the last column and
\* the other columns keep their order; without it the order is as assembled;
\* the rows' cells are those from before the reordering.
C4_TargetLast ==
    [][Returns =>
          /\ merged_df.columns = <<TimeCol>> \o variable_data.keys
          /\ merged_df'.columns[1] = TimeCol
          /\ Range(merged_df'.columns) = {TimeCol} \cup Range(variable_data.keys)
          /\ Len(merged_df'.columns) = 1 + Len(variable_data.keys)
          /\ IF target_variable \in Range(variable_data.keys)
             THEN /\ merged_df'.columns[Len(merged_df'.columns)] = target_variable
                  /\ SelectSeq(merged_df'.columns, NotTargetColumn) =
                        SelectSeq(merged_df.columns, NotTargetColumn)
             ELSE merged_df'.columns = merged_df.columns
          /\ Len(merged_df'.rows) = Len(merged_df.rows)
          /\ \A i \in 1..Len(merged_df.rows) :
                \A c \in Range(merged_df.columns) :
                   merged_df'.rows[i][c] = merged_df.rows[i][c]]_vars

\* The target variable was collected first and stands last in the returned
\* table, behind a station's variable.
C4_Witness ==
    /\ Returned
    /\ variable_data.keys = <<"P", "a">>
    /\ merged_df.columns = <<TimeCol, "a", "P">>
    /\ Len(merged_df.rows) > 0
    /\ merged_df.rows[1]["a"] # NULL
    /\ merged_df.rows[1]["P"] # NULL

\* C8: output is written only after both existence checks passed and
\* process_all_data returned its table; a failed check makes main return
\* before any file is opened; an exception is caught, leaves no output and
\* main returns.
C8_NoOutputOnFailure ==
    /\ touched => checked = <<TRUE, TRUE>>
    /\ output # <<>> =>
          /\ checked = <<TRUE, TRUE>>
          /\ error = ""
          /\ pc = "returned"
          /\ output = <<merged_df>>
    /\ (pc = "returned" /\ FALSE \in Range(checked)) => (~touched /\ output = <<>>)
    /\ error # "" => (output = <<>> /\ pc \in {"except", "returned"})

\* main has returned after process_all_data raised ValueError: nothing written.
C8_Witness ==
    /\ pc = "returned"
    /\ error = "ValueError"
    /\ touched
    /\ checked = <<TRUE, TRUE>>
    /\ output = <<>>

\* C9: a table is assembled, returned or written only if some timestamp was
\* collected; with no timestamp at all process_all_data raises ValueError.
C9_NoDataIsFatal ==
    (pc \in {"join_var", "write_csv"} \/ output # <<>>) => AllTimes # {}

\* In these states dfs and combined are those of the folder just combined.
JustCombined == (pc = "merge_var" \/ (pc = "glob_site" /\ site_i = 1)) /\ dfs # <<>>

\* The file a cell of a pipeline file comes from.
FileOf(v) == (v \div 10) % 10

\* The first frame of dfs with a row at time t, and that row.
FirstFrameAt(t) == Least({i \in 1..Len(dfs) : t \in Times(dfs[i])})
FirstRowAt(t) ==
    LET f == dfs[FirstFrameAt(t)]
    IN  f.rows[Least({j \in 1..Len(f.rows) : f.rows[j][TimeCol] = t})]

\* C10: the files of a folder are read in ascending order of their names and,
\* of the rows with one timestamp, the whole row of the earliest occurrence
\* survives, nulls included.
C10_FirstOccurrenceWins ==
    JustCombined =>
        /\ Len(dfs) = Len(files)
        /\ \A i, j \in 1..Len(files) : i < j => files[i] < files[j]
        /\ \A i \in 1..Len(dfs) : \A r \in 1..Len(dfs[i].rows) :
              \A c \in Range(dfs[i].columns) \ {TimeCol} :
                 dfs[i].rows[r][c] # NULL => FileOf(dfs[i].rows[r][c]) = files[i]
        /\ \A i \in 1..Len(combined.rows) :
              combined.rows[i] = FirstRowAt(combined.rows[i][TimeCol])

\* Two files of a station share a timestamp; the first lacks variable b, the
\* second has it; the combined row has the first file's a and a null b.
C10_Witness ==
    /\ pc = "merge_var"
    /\ site_config[site_i].variables = <<"a", "b">>
    /\ Len(dfs) = 2
    /\ Len(dfs[1].rows) = 1 /\ Len(dfs[2].rows) = 1
    /\ dfs[1].rows[1][TimeCol] = dfs[2].rows[1][TimeCol]
    /\ dfs[1].rows[1]["b"] = NULL
    /\ dfs[2].rows[1]["b"] # NULL
    /\ dfs[2].rows[1]["a"] # NULL
    /\ combined.rows[1]["b"] = NULL
    /\ combined.rows[1]["a"] = dfs[1].rows[1]["a"]
    /\ FileOf(combined.rows[1]["a"]) = files[1]

====
